---------------------------- MODULE Spec2Model ----------------------------
(***************************************************************************)
(* A model of the Figma MCP server: the URI resolver (validateUri), the    *)
(* document normalizer (transformFigmaNode and its helpers), the resource  *)
(* handler (FigmaResourceHandler) and the resource/tool callbacks the      *)
(* server registers.                                                       *)
(*                                                                         *)
(* JavaScript values are tagged records: [t |-> "undefined"], "null",      *)
(* "number" (field n), "string" (field s, a sequence of one-character      *)
(* strings, one per UTF-16 unit), "boolean" (field b), "object" (field f,  *)
(* a function from property names to values) and "array" (field e, a       *)
(* sequence of values).  Payloads come from JSON, so there is no NaN.      *)
(***************************************************************************)
EXTENDS Integers, Sequences, FiniteSets, TLC

VARIABLES
    pc,          \* position of the resolver / normalizer run
    uri,         \* resolver: the identifier handed to validateUri
    address,     \* resolver: what validateUri(uri) returned or threw
    reassembled, \* resolver: the components of address joined back
    readdress,   \* resolver: validateUri(reassembled)
    raw,         \* normalizer: the raw node handed to transformFigmaNode
    minimal,     \* normalizer: transformFigmaNode(raw)
    renormal,    \* normalizer: transformFigmaNode(minimal)
    handler,     \* gateway: the fields of the FigmaResourceHandler object
    call,        \* gateway: the operation last invoked, with its argument
    requests,    \* gateway: the upstream requests that operation issued
    outcome      \* gateway: what that operation returned or threw

vars == <<pc, uri, address, reassembled, readdress, raw, minimal, renormal,
          handler, call, requests, outcome>>

-----------------------------------------------------------------------------
(* JavaScript values *)

Undef == [t |-> "undefined"]

Null == [t |-> "null"]

Num(n) == [t |-> "number", n |-> n]

Str(s) == [t |-> "string", s |-> s]

Bool(b) == [t |-> "boolean", b |-> b]

Obj(f) == [t |-> "object", f |-> f]

Arr(e) == [t |-> "array", e |-> e]

\* the object with no own property
NoProps == [x \in {} |-> Undef]

\* typeof v
TypeOf(v) ==
    CASE v.t = "undefined" -> "undefined"
      [] v.t = "null"      -> "object"
      [] v.t = "number"    -> "number"
      [] v.t = "string"    -> "string"
      [] v.t = "boolean"   -> "boolean"
      [] v.t = "object"    -> "object"
      [] v.t = "array"     -> "object"

\* ToBoolean(v): what `if (v)`, `!v` and `a && b` test
Truthy(v) ==
    CASE v.t = "undefined" -> FALSE
      [] v.t = "null"      -> FALSE
      [] v.t = "number"    -> v.n /= 0
      [] v.t = "string"    -> Len(v.s) > 0
      [] v.t = "boolean"   -> v.b
      [] v.t = "object"    -> TRUE
      [] v.t = "array"     -> TRUE

\* v.name, on a value that is neither null nor undefined
Get(v, name) ==
    IF v.t = "object" /\ name \in DOMAIN v.f THEN v.f[name] ELSE Undef

\* a function's outcome
Return(v) == [return |-> v]

Throw(e) == [throw |-> e]

\* new name(message): message is the text, cut where a value was spliced in
Error(name, message) == [name |-> name, message |-> message]

-----------------------------------------------------------------------------
(* Characters *)

Letters ==
    {"a","b","c","d","e","f","g","h","i","j","k","l","m",
     "n","o","p","q","r","s","t","u","v","w","x","y","z",
     "A","B","C","D","E","F","G","H","I","J","K","L","M",
     "N","O","P","Q","R","S","T","U","V","W","X","Y","Z"}

Digits == {"0","1","2","3","4","5","6","7","8","9"}

\* \w
WordChars == Letters \cup Digits \cup {"_"}

\* [\w-]
KeyChars == WordChars \cup {"-"}

\* what `.` does not match (no s flag)
LineTerminators == {"\n", "\r"}

-----------------------------------------------------------------------------
(* URI resolver *)

\* the literal head of the pattern: figma:///file/
UriPrefix == <<"f","i","g","m","a",":","/","/","/","f","i","l","e","/">>

\* the length of the longest run of characters of class cls that starts at
\* position from of s (what a greedy quantifier consumes first)
Run(s, from, cls) ==
    LET stops == {i \in from..Len(s) : s[i] \notin cls}
        upto  == IF stops = {} THEN Len(s)
                 ELSE (CHOOSE i \in stops : \A j \in stops : i <= j) - 1
    IN upto - from + 1

\* the characters `.` matches among those of s
DotChars(s) == {s[i] : i \in 1..Len(s)} \ LineTerminators

\* The ways the pattern can match u from its start, as the lengths k, c, r
\* of groups 1, 3 and 5 (0: the group took no part); toEnd says whether the
\* pattern ends in $, so that a match must reach the end of u.
PatternMatches(u, toEnd) ==
    LET P == Len(UriPrefix)
        n == Len(u)
        AtEnd(pos) == toEnd => pos = n
        \* (\/(.+))? after a category that ends at position pos
        GroupFour(k, c, pos) ==
            (IF AtEnd(pos) THEN {[k |-> k, c |-> c, r |-> 0]} ELSE {})
              \cup (IF pos + 1 <= n /\ u[pos + 1] = "/"
                    THEN {[k |-> k, c |-> c, r |-> r] :
                            r \in {x \in 1..Run(u, pos + 2, DotChars(u)) :
                                     AtEnd(pos + 1 + x)}}
                    ELSE {})
        \* (\/(\w+)(\/(.+))?)? after a key that ends at position pos
        GroupTwo(k, pos) ==
            (IF AtEnd(pos) THEN {[k |-> k, c |-> 0, r |-> 0]} ELSE {})
              \cup (IF pos + 1 <= n /\ u[pos + 1] = "/"
                    THEN UNION {GroupFour(k, c, pos + 1 + c) :
                                  c \in 1..Run(u, pos + 2, WordChars)}
                    ELSE {})
    IN IF ~(n >= P /\ SubSeq(u, 1, P) = UriPrefix) THEN {}
       ELSE UNION {GroupTwo(k, P + k) : k \in 1..Run(u, P + 1, KeyChars)}

\* the pattern without its trailing $: a match may stop before the end
UriMatchesUnanchored(u) == PatternMatches(u, FALSE)

\* every way /^figma:\/\/\/file\/([\w-]+)(\/(\w+)(\/(.+))?)?$/ can match u
UriMatches(u) == PatternMatches(u, TRUE)

\* the match the backtracking engine finds first among ms (greedy
\* quantifiers: the longest group 1, then the optional group 2 taken with the
\* longest group 3, then the optional group 4 taken with the longest group 5)
FirstMatch(ms) ==
    CHOOSE m \in ms :
      \A o \in ms : \/ m.k > o.k
                    \/ m.k = o.k /\ m.c > o.c
                    \/ m.k = o.k /\ m.c = o.c /\ m.r >= o.r

\* the match array: the text of groups 1 to 5 of the match m of u
MatchGroups(u, m) ==
    LET s2 == Len(UriPrefix) + m.k + 1   \* where group 2 starts
        s4 == s2 + 1 + m.c               \* where group 4 starts
    IN Obj([g1 |-> Str(SubSeq(u, Len(UriPrefix) + 1, s2 - 1)),
            g2 |-> IF m.c = 0 THEN Undef
                   ELSE Str(SubSeq(u, s2, s4 + (IF m.r = 0 THEN 0 ELSE m.r + 1) - 1)),
            g3 |-> IF m.c = 0 THEN Undef ELSE Str(SubSeq(u, s2 + 1, s4 - 1)),
            g4 |-> IF m.r = 0 THEN Undef ELSE Str(SubSeq(u, s4, s4 + m.r)),
            g5 |-> IF m.r = 0 THEN Undef ELSE Str(SubSeq(u, s4 + 1, s4 + m.r))])

\* null when nothing matched, else the match array
MatchOf(u, ms) == IF ms = {} THEN Null ELSE MatchGroups(u, FirstMatch(ms))

\* uri.match(/^figma:\/\/\/file\/([\w-]+)(\/(\w+)(\/(.+))?)?$/)
UriMatch(u) == MatchOf(u, UriMatches(u))

\* what validateUri makes of match, resourceId read from the group idGroup
MatchResult(u, match, idGroup) ==
    IF ~Truthy(match) THEN Throw(Error("InvalidUriError", u))
    ELSE Return([fileKey      |-> Get(match, "g1"),
                 resourceType |-> Get(match, "g3"),
                 resourceId   |-> Get(match, idGroup)])

\* validateUri with resourceId read from match[4], the group that still
\* carries the separator
validateUriGroup4(u) == MatchResult(u, UriMatch(u), "g4")

\* resourceId is match[5]
validateUri(u) == MatchResult(u, UriMatch(u), "g5")

-----------------------------------------------------------------------------
(* Document normalizer *)

\* result.name = v, on the property map f of result
Set(f, name, v) == (name :> v) @@ f

IsArray(v) == v.t = "array"

transformColor(color) ==
    IF ~Truthy(color) \/ TypeOf(color) /= "object" THEN Undef
    ELSE LET r == Get(color, "r")
             g == Get(color, "g")
             b == Get(color, "b")
             a == Get(color, "a")
         IN IF \/ TypeOf(r) /= "number" \/ TypeOf(g) /= "number"
               \/ TypeOf(b) /= "number" \/ TypeOf(a) /= "number"
            THEN Undef
            ELSE Obj([r |-> r, g |-> g, b |-> b, a |-> a])

\* transformFill giving up on a fill whose color does not validate
transformFillStrict(fill) ==
    IF \/ ~Truthy(fill) \/ TypeOf(fill) /= "object"
       \/ TypeOf(Get(fill, "type")) /= "string"
    THEN Undef
    ELSE IF Truthy(Get(fill, "color"))
         THEN LET color == transformColor(Get(fill, "color"))
              IN IF Truthy(color)
                 THEN Obj([type |-> Get(fill, "type"), color |-> color])
                 ELSE Undef
         ELSE Obj([type |-> Get(fill, "type")])

transformFill(fill) ==
    IF \/ ~Truthy(fill) \/ TypeOf(fill) /= "object"
       \/ TypeOf(Get(fill, "type")) /= "string"
    THEN Undef
    ELSE LET result == [type |-> Get(fill, "type")]
         IN IF Truthy(Get(fill, "color"))
            THEN LET color == transformColor(Get(fill, "color"))
                 IN IF Truthy(color) THEN Obj(Set(result, "color", color))
                    ELSE Obj(result)
            ELSE Obj(result)

\* the default of summarizeText's maxLength parameter
DefaultMaxLength == 100

Ellipsis == <<".", ".", ".">>

\* text.substring(0, end): end is clamped to the length
Substring(text, end) ==
    SubSeq(text, 1, IF end > Len(text) THEN Len(text) ELSE end)

\* summarizeText with the marker appended whatever the length
summarizeTextAlways(text, maxLength) ==
    Substring(text, maxLength) \o Ellipsis

\* summarizeText with the test text.length >= maxLength
summarizeTextAtThreshold(text, maxLength) ==
    IF Len(text) >= maxLength
    THEN Substring(text, maxLength) \o Ellipsis
    ELSE text

\* text and the result are the units of a string
summarizeText(text, maxLength) ==
    IF Len(text) > maxLength
    THEN Substring(text, maxLength) \o Ellipsis
    ELSE text

\* the lineHeight step of transformStyle, on the property map of result
StyleLineHeight(style, result) ==
    LET lineHeight == Get(style, "lineHeight")
        \* style.lineHeight?.value
        value == IF lineHeight.t \in {"undefined", "null"} THEN Undef
                 ELSE Get(lineHeight, "value")
    IN IF TypeOf(lineHeight) = "number"
       THEN Set(result, "lineHeight", lineHeight)
       ELSE IF Truthy(value) /\ TypeOf(value) = "number"
            THEN Set(result, "lineHeight", value)
            ELSE result

\* the fills step of transformStyle, on the property map of result
StyleFills(style, result) ==
    IF IsArray(Get(style, "fills"))
    THEN LET IsFill(fill) == fill /= Undef
             given == Get(style, "fills").e
             fills == SelectSeq([i \in 1..Len(given) |-> transformFill(given[i])],
                                IsFill)
         IN IF Len(fills) > 0 THEN Set(result, "fills", Arr(fills)) ELSE result
    ELSE result

\* the simple properties of transformStyle: each copied when of its type
StyleSimple(style) ==
    LET Copy(result, name, type) ==
            IF TypeOf(Get(style, name)) = type
            THEN Set(result, name, Get(style, name)) ELSE result
    IN Copy(Copy(Copy(Copy(Copy(NoProps,
         "fontFamily", "string"), "fontSize", "number"),
         "fontWeight", "number"), "letterSpacing", "number"),
         "textAlignHorizontal", "string")

transformStyle(style) ==
    IF ~Truthy(style) \/ TypeOf(style) /= "object" THEN Undef
    ELSE LET result == StyleFills(style, StyleLineHeight(style, StyleSimple(style)))
         IN IF Cardinality(DOMAIN result) > 0 THEN Obj(result) ELSE Undef

\* the bounding-box step of transformFigmaNode
NodeBoundingBox(node, transformed) ==
    LET box    == Get(node, "absoluteBoundingBox")
        x      == Get(box, "x")
        y      == Get(box, "y")
        width  == Get(box, "width")
        height == Get(box, "height")
    IN IF /\ Truthy(box)
          /\ TypeOf(x) = "number" /\ TypeOf(y) = "number"
          /\ TypeOf(width) = "number" /\ TypeOf(height) = "number"
       THEN Set(transformed, "absoluteBoundingBox",
                Obj([x |-> x, y |-> y, width |-> width, height |-> height]))
       ELSE transformed

\* the style step of transformFigmaNode
NodeStyle(node, transformed) ==
    LET style == transformStyle(Get(node, "style"))
    IN IF Truthy(style) THEN Set(transformed, "style", style) ELSE transformed

TextType == Str(<<"T", "E", "X", "T">>)

\* the text step of transformFigmaNode
NodeCharacters(node, transformed) ==
    IF Get(node, "type") = TextType /\ TypeOf(Get(node, "characters")) = "string"
    THEN Set(transformed, "characters",
             Str(summarizeText(Get(node, "characters").s, DefaultMaxLength)))
    ELSE transformed

RECURSIVE transformFigmaNode(_)

\* node is an object (a null or undefined node makes node.id throw)
transformFigmaNode(node) ==
    LET seed == [id   |-> Get(node, "id"),
                 name |-> Get(node, "name"),
                 type |-> Get(node, "type")]
        transformed == NodeCharacters(node, NodeStyle(node, NodeBoundingBox(node, seed)))
    IN IF IsArray(Get(node, "children"))
       THEN LET children == Get(node, "children").e
            IN Obj(Set(transformed, "children",
                       Arr([i \in 1..Len(children) |-> transformFigmaNode(children[i])])))
       ELSE Obj(transformed)

transformFigmaDocument(document) ==
    Obj([name         |-> Get(document, "name"),
         version      |-> Get(document, "version"),
         lastModified |-> Get(document, "lastModified"),
         thumbnailUrl |-> Get(document, "thumbnailUrl"),
         document     |-> transformFigmaNode(Get(document, "document"))])

-----------------------------------------------------------------------------
(* Resource handler *)

\* fetch(`${this.baseUrl}${path}`): the path as its template and the values
\* spliced into it
Path(template, fileKey, arg) ==
    [template |-> template, fileKey |-> fileKey, arg |-> arg]

\* figmaRequest that takes a 403 for any other failure
figmaRequestNo403(response) ==
    IF ~response.ok
    THEN IF response.status = 404
         THEN Throw(Error("ResourceNotFoundError", <<"Figma resource not found">>))
         ELSE Throw(Error("Error", <<"Figma API error: ", response.statusText>>))
    ELSE Return(response.body)

\* figmaRequest, once fetch has resolved to response
figmaRequest(response) ==
    IF ~response.ok
    THEN IF response.status = 404
         THEN Throw(Error("ResourceNotFoundError", <<"Figma resource not found">>))
         ELSE IF response.status = 403
              THEN Throw(Error("ResourceAccessDeniedError",
                               <<"Access to Figma resource denied">>))
              ELSE Throw(Error("Error", <<"Figma API error: ", response.statusText>>))
    ELSE Return(response.body)

RECURSIVE JSONValue(_)

\* what JSON.stringify keeps of a value: a property whose value is undefined
\* is left out, an undefined element of an array becomes null
JSONValue(v) ==
    CASE v.t = "object" ->
           Obj([name \in {k \in DOMAIN v.f : v.f[k] /= Undef} |-> JSONValue(v.f[name])])
      [] v.t = "array" ->
           Arr([i \in 1..Len(v.e) |-> IF v.e[i] = Undef THEN Null ELSE JSONValue(v.e[i])])
      [] OTHER -> v

\* JSON.stringify(v, null, 2): the text, as the value it denotes
JSONStringify(v) == [json |-> JSONValue(v)]

RECURSIVE Split(_, _)

\* s.split(sep), sep one unit
Split(s, sep) ==
    LET at == {i \in 1..Len(s) : s[i] = sep}
    IN IF at = {} THEN <<s>>
       ELSE LET i == CHOOSE x \in at : \A y \in at : x <= y
            IN <<SubSeq(s, 1, i - 1)>> \o Split(SubSeq(s, i + 1, Len(s)), sep)

RECURSIVE Join(_, _)

\* parts.join(sep)
Join(parts, sep) ==
    IF Len(parts) = 0 THEN <<>>
    ELSE IF Len(parts) = 1 THEN parts[1]
         ELSE parts[1] \o <<sep>> \o Join(Tail(parts), sep)

Nodes == <<"n","o","d","e","s">>

Images == <<"i","m","a","g","e","s">>

Comments == <<"c","o","m","m","e","n","t","s">>

Versions == <<"v","e","r","s","i","o","n","s">>

Components == <<"c","o","m","p","o","n","e","n","t","s">>

Styles == <<"s","t","y","l","e","s">>

Variables == <<"v","a","r","i","a","b","l","e","s">>

File == <<"f","i","l","e">>

\* one ResourceContents
Contents(u, text) == [uri |-> u, mimeType |-> "application/json", text |-> text]

\* read: the request it issues for the address a, or what it throws without
\* issuing one
ReadRequest(a) ==
    LET fileKey      == a.fileKey.s
        resourceType == a.resourceType
        Collection(template) == Return(Path(template, fileKey, <<>>))
    IN IF ~Truthy(resourceType) THEN Return(Path("/files/{fileKey}", fileKey, <<>>))
       ELSE CASE resourceType.s = Nodes ->
                   LET nodeIds == IF a.resourceId = Undef THEN <<>>
                                  ELSE Split(a.resourceId.s, ",")
                   IN Return(Path("/files/{fileKey}/nodes?ids={nodeIds}", fileKey,
                                  Join(nodeIds, ",")))
              [] resourceType.s = Images     -> Collection("/files/{fileKey}/images")
              [] resourceType.s = Comments   -> Collection("/files/{fileKey}/comments")
              [] resourceType.s = Versions   -> Collection("/files/{fileKey}/versions")
              [] resourceType.s = Components -> Collection("/files/{fileKey}/components")
              [] resourceType.s = Styles     -> Collection("/files/{fileKey}/styles")
              [] resourceType.s = Variables  ->
                   Collection("/files/{fileKey}/variables/local")
              [] OTHER ->
                   Throw(Error("Error",
                               <<"Unsupported resource type: ">> \o resourceType.s))

\* read: what it returns for the address a of u once its request succeeded
\* with body
ReadContents(u, a, body) ==
    IF ~Truthy(a.resourceType)
    THEN <<Contents(u, JSONStringify(transformFigmaDocument(body)))>>
    ELSE IF a.resourceType.s = Nodes
         THEN LET nodes == Get(body, "nodes").f
                  transformedNodes ==
                      Obj([id \in DOMAIN nodes |-> transformFigmaNode(nodes[id])])
              IN <<Contents(u, JSONStringify(Obj([nodes |-> transformedNodes])))>>
         ELSE <<Contents(u, JSONStringify(body))>>

\* a list that adds a nodes entry under each file too
subResourcesWithNodes ==
    <<Nodes, Images, Comments, Versions, Components, Styles, Variables>>

\* the categories list adds under each file
subResources == <<Images, Comments, Versions, Components, Styles, Variables>>

\* `figma:///file/${file.key}`
FileUri(key) == UriPrefix \o key

\* `figma:///file/${file.key}/${type}`
SubUri(key, type) == UriPrefix \o key \o <<"/">> \o type

\* the entry list and search make for a file
FileResource(file) ==
    [uri      |-> FileUri(Get(file, "key").s),
     type     |-> File,
     name     |-> Get(file, "name"),
     metadata |-> [lastModified |-> Get(file, "lastModified"),
                   thumbnailUrl |-> Get(file, "thumbnailUrl")]]

\* the entry list makes for a category of a file
SubResource(file, type) ==
    [uri      |-> SubUri(Get(file, "key").s, type),
     type     |-> type,
     name     |-> Str(Get(file, "name").s \o <<" ", "-", " ">> \o type),
     metadata |-> [fileKey  |-> Get(file, "key"),
                   fileName |-> Get(file, "name")]]

RECURSIVE ListResources(_, _)

\* the loops of list over files.files from position i on: resources.push in
\* order
ListResources(files, i) ==
    IF i > Len(files) THEN <<>>
    ELSE <<FileResource(files[i])>>
           \o [j \in 1..Len(subResources) |-> SubResource(files[i], subResources[j])]
           \o ListResources(files, i + 1)

\* encodeURIComponent on the units queries are made of
EncodeURIComponent(s) ==
    LET Enc(c) == CASE c = " " -> <<"%", "2", "0">>
                    [] c = "/" -> <<"%", "2", "F">>
                    [] OTHER   -> <<c>>
        Cat[i \in 0..Len(s)] == IF i = 0 THEN <<>> ELSE Cat[i - 1] \o Enc(s[i])
    IN Cat[Len(s)]

\* watch: the request it issues for the address a, if any
WatchRequests(a) ==
    IF a.resourceType = Str(File)
    THEN <<Path("/files/{fileKey}", a.fileKey.s, <<>>)>>
    ELSE <<>>

-----------------------------------------------------------------------------
(* Resolver runs: validateUri on an identifier, then on its components     *)
(* joined back with the grammar's separators.                              *)

MaxTail == 4

\* the characters identifiers are built from: word characters, the hyphen,
\* the separator, a character of neither class, a line terminator
TailChars == {"a", "1", "-", "/", ":", "\n"}

\* what an identifier starts with: the full head, the full head with a key
\* and a category after it, the head without its scheme, without its file/
\* segment, with a slash short, preceded by another character, or nothing
UriHeads ==
    {UriPrefix,
     UriPrefix \o <<"K","-","9","/","n","o","d","e","s","/">>,
     <<"/","f","i","l","e","/">>,
     <<"f","i","g","m","a",":","/","/","/">>,
     <<"f","i","g","m","a",":","/","/","f","i","l","e","/">>,
     <<"x">> \o UriPrefix,
     <<>>}

SeqsUpTo(S, n) == UNION {[1..k -> S] : k \in 0..n}

UriInputs == {h \o t : h \in UriHeads, t \in SeqsUpTo(TailChars, MaxTail)}

NoOutcome == [none |-> TRUE]

\* the components of an address joined with the separators of the grammar,
\* an absent component and its separator left out
Reassemble(a) ==
    UriPrefix \o a.fileKey.s
      \o (IF a.resourceType = Undef THEN <<>> ELSE <<"/">> \o a.resourceType.s)
      \o (IF a.resourceId = Undef THEN <<>> ELSE <<"/">> \o a.resourceId.s)

InitResolve ==
    /\ pc = "input"
    /\ uri \in UriInputs
    /\ address = NoOutcome
    /\ reassembled = <<>> /\ readdress = NoOutcome
    /\ raw = Undef /\ minimal = NoOutcome /\ renormal = NoOutcome
    /\ handler = NoProps /\ call = NoOutcome /\ requests = <<>>
    /\ outcome = NoOutcome

Resolve ==
    /\ pc = "input"
    /\ address' = validateUri(uri)
    /\ pc' = "resolved"
    /\ UNCHANGED <<uri, reassembled, readdress, raw, minimal, renormal,
                   handler, call, requests, outcome>>

ResolveAgain ==
    /\ pc = "resolved"
    /\ "return" \in DOMAIN address
    /\ reassembled' = Reassemble(address.return)
    /\ readdress' = validateUri(reassembled')
    /\ pc' = "reresolved"
    /\ UNCHANGED <<uri, address, raw, minimal, renormal,
                   handler, call, requests, outcome>>

NextResolve == Resolve \/ ResolveAgain

SpecResolve == InitResolve /\ [][NextResolve]_vars


-----------------------------------------------------------------------------
(* Normalizer runs: transformFigmaNode on a raw node, then on its own      *)
(* output.                                                                 *)

MaxFills == 2

MaxChildren == 2

MaxDepth == 2

TextSlack == 2

\* a text of n units, no two neighbours alike
TextOf(n) ==
    [i \in 1..n |-> <<"0", "1", "2", "3", "4", "5", "6", "7", "8", "9">>[(i % 10) + 1]]

Pixels == Str(<<"P", "I", "X", "E", "L", "S">>)

Solid == Str(<<"S", "O", "L", "I", "D">>)

Inter == Str(<<"I", "n", "t", "e", "r">>)

Frame == Str(<<"F", "R", "A", "M", "E">>)

\* lengths around the threshold, and those of short and long texts
TextLengths ==
    {0, 3, DefaultMaxLength + 50}
      \cup {DefaultMaxLength + d : d \in (0 - TextSlack)..(TextSlack + 1)}

\* values of node.characters
RawCharacters == {Undef, Null, Num(7)} \cup {Str(TextOf(n)) : n \in TextLengths}

\* values of style.lineHeight (Undef: the property is absent)
RawLineHeights ==
    {Undef, Null, Pixels, Num(24), Num(0), Num(-3),
     Obj([value |-> Num(24), unit |-> Pixels]),
     Obj([value |-> Num(0), unit |-> Pixels]),
     Obj([value |-> Num(-2), unit |-> Pixels]),
     Obj([value |-> Pixels]),
     Obj([unit |-> Pixels])}

Opaque == Obj([r |-> Num(1), g |-> Num(0), b |-> Num(0), a |-> Num(1)])

\* values of an element of style.fills
RawFills ==
    {Null,
     Solid,
     Obj([type |-> Solid]),
     Obj([type |-> Solid, color |-> Opaque, opacity |-> Num(1)]),
     Obj([type |-> Num(5), color |-> Opaque]),
     Obj([color |-> Opaque]),
     Obj([type |-> Solid, color |-> Obj([r |-> Num(1), g |-> Num(0), b |-> Num(0)])]),
     Obj([type |-> Solid,
          color |-> Obj([r |-> Pixels, g |-> Num(0), b |-> Num(0), a |-> Num(1)])]),
     Obj([type |-> Solid, color |-> Null]),
     Obj([type |-> Solid, color |-> Num(7)])}

\* values of style.fills (Undef: the property is absent)
RawFillLists == {Undef, Null, Obj([length |-> Num(0)])}
                  \cup {Arr(e) : e \in SeqsUpTo(RawFills, MaxFills)}

\* the simple properties of a style: absent, well typed, ill typed
RawSimple ==
    {NoProps,
     [fontFamily |-> Inter, fontSize |-> Num(12), fontWeight |-> Num(400),
      letterSpacing |-> Num(0), textAlignHorizontal |-> Pixels,
      fontPostScriptName |-> Inter],
     [fontFamily |-> Num(1), fontSize |-> Inter, fontWeight |-> Null,
      letterSpacing |-> Inter, textAlignHorizontal |-> Num(0)]}

\* f with the property name set to v unless v is Undef
SetIfDefined(f, name, v) == IF v = Undef THEN f ELSE Set(f, name, v)

RawStyleObjects ==
    {Obj(SetIfDefined(SetIfDefined(simple, "lineHeight", lh), "fills", fills)) :
        simple \in RawSimple, lh \in RawLineHeights, fills \in RawFillLists}

\* values of node.style that are no plain object
RawStyleOthers == {Undef, Null, Pixels, Num(3), Arr(<<>>)}

\* values of node.absoluteBoundingBox
RawBoxes ==
    {Undef, Null, Num(4),
     Obj([x |-> Num(1), y |-> Num(2), width |-> Num(10), height |-> Num(0)]),
     Obj([x |-> Num(1), y |-> Pixels, width |-> Num(10), height |-> Num(10)]),
     Obj([x |-> Num(1), y |-> Num(2), width |-> Num(10)])}

\* a raw node: the three identity properties, an unknown one, and the
\* optional ones that are defined
RawNode(type, characters, style, box, children) ==
    Obj(SetIfDefined(SetIfDefined(SetIfDefined(SetIfDefined(
          [id |-> Str(<<"1", ":", "2">>), name |-> Inter, type |-> type,
           blendMode |-> Pixels],
          "characters", characters), "style", style),
          "absoluteBoundingBox", box), "children", children))

\* nodes that vary the style
StyleSweep ==
    {RawNode(TextType, Str(TextOf(3)), style, Undef, Undef) :
        style \in RawStyleObjects \cup RawStyleOthers}

\* nodes that vary the type, the text and the bounding box
TextSweep ==
    {RawNode(type, characters, Undef, box, Undef) :
        type \in {TextType, Frame}, characters \in RawCharacters, box \in RawBoxes}

\* a text that is truncated, with a line height in the object form and fills
LongTextLeaf ==
    RawNode(TextType, Str(TextOf(DefaultMaxLength + 50)),
            Obj([lineHeight |-> Obj([value |-> Num(24), unit |-> Pixels]),
                 fills |-> Arr(<<Obj([type |-> Solid, color |-> Opaque]), Null>>)]),
            Undef, Undef)

\* a frame with a bounding box
BoxLeaf ==
    RawNode(Frame, Undef, Undef,
            Obj([x |-> Num(1), y |-> Num(2), width |-> Num(10), height |-> Num(0)]),
            Undef)

\* a short text whose style and box do not validate
PlainLeaf ==
    RawNode(TextType, Str(TextOf(3)), Obj([fontSize |-> Inter]), Num(4), Undef)

\* the leaves of the trees
Leaves == {LongTextLeaf, BoxLeaf, PlainLeaf}

RECURSIVE Trees(_)

\* trees of depth at most d: a leaf, or a frame over at most MaxChildren
\* children, the first a tree of depth d - 1 and the others leaves
Trees(d) ==
    IF d = 0 THEN Leaves
    ELSE LET below == Trees(d - 1)
             rest  == SeqsUpTo(Leaves, MaxChildren - 1)
         IN below
              \cup {RawNode(Frame, Str(TextOf(3)), Undef, Undef, Arr(<<>>))}
              \cup {RawNode(Frame, Undef, Undef, Undef, Arr(<<t>> \o r)) :
                      t \in below, r \in rest}

RawInputs == StyleSweep \cup TextSweep \cup Trees(MaxDepth)

InitNormalize ==
    /\ pc = "input"
    /\ raw \in RawInputs
    /\ minimal = NoOutcome /\ renormal = NoOutcome
    /\ uri = <<>> /\ address = NoOutcome
    /\ reassembled = <<>> /\ readdress = NoOutcome
    /\ handler = NoProps /\ call = NoOutcome /\ requests = <<>>
    /\ outcome = NoOutcome

Normalize ==
    /\ pc = "input"
    /\ minimal' = transformFigmaNode(raw)
    /\ pc' = "normalized"
    /\ UNCHANGED <<uri, address, reassembled, readdress, raw, renormal,
                   handler, call, requests, outcome>>

NormalizeAgain ==
    /\ pc = "normalized"
    /\ renormal' = transformFigmaNode(minimal)
    /\ pc' = "renormalized"
    /\ UNCHANGED <<uri, address, reassembled, readdress, raw, minimal,
                   handler, call, requests, outcome>>

NextNormalize == Normalize \/ NormalizeAgain

SpecNormalize == InitNormalize /\ [][NextNormalize]_vars

-----------------------------------------------------------------------------
(* The server: one handler object, the operations of FigmaResourceHandler   *)
(* and the callbacks main registers.  An operation awaits at most one       *)
(* request and shares no mutable state with another, so each is one step,   *)
(* the upstream response chosen with it.                                    *)

MaxFiles == 2

\* the keys of the files the upstream lists
FileKeys == {<<"K","-","9">>, <<"a","b","c">>}

\* the keys of the files that are addressed
AddressedKeys == {<<"K","-","9">>}

\* the sub-identifiers of nodes addresses
NodeIds == {<<"1",":","2">>, <<"1",":","2",",","1",":","3">>}

\* categories no case of read names: the type of whole files, an unknown one
OtherTypes == {File, <<"f","r","a","m","e","s">>}

\* the identifiers the operations are called with
GatewayUris ==
    {FileUri(k) : k \in AddressedKeys}
      \cup {SubUri(k, Nodes) : k \in AddressedKeys}
      \cup {SubUri(k, subResources[j]) : k \in AddressedKeys, j \in 1..Len(subResources)}
      \cup {SubUri(k, Nodes) \o <<"/">> \o ids : k \in AddressedKeys, ids \in NodeIds}
      \cup {SubUri(k, t) : k \in AddressedKeys, t \in OtherTypes}
      \cup {<<"n","o","t","-","a","-","u","r","i">>, UriPrefix}
      \cup {FileUri(k) \o <<"/">> : k \in AddressedKeys}

Queries == {<<"a">>, <<"a"," ","/","b">>}

Stamp == Str(<<"2","0","2","4">>)

\* a document as /files/{fileKey} returns it
FileBody(tree) ==
    Obj([name |-> Inter, version |-> Stamp, lastModified |-> Stamp,
         thumbnailUrl |-> Pixels, schemaVersion |-> Num(0), document |-> tree])

\* a file as /me/files and /search return it
FileEntry(key) ==
    Obj([key |-> Str(key), name |-> Inter, lastModified |-> Stamp,
         thumbnailUrl |-> Pixels, version |-> Stamp])

\* the bodies /files/{fileKey} may return
FileBodies ==
    {FileBody(tree) :
        tree \in Leaves \cup {RawNode(Frame, Undef, Undef, Undef,
                                      Arr(<<LongTextLeaf, BoxLeaf>>))}}

\* the bodies /files/{fileKey}/nodes may return
NodesBodies ==
    {Obj([nodes |-> Obj(NoProps)])}
      \cup {Obj([nodes |-> Obj([n1 |-> leaf])]) : leaf \in Leaves}

\* the bodies /me/files and /search may return
FilesBodies ==
    {Obj([files |-> Arr([i \in 1..Len(ks) |-> FileEntry(ks[i])])]) :
        ks \in SeqsUpTo(FileKeys, MaxFiles)}

\* the bodies the category collections may return
CollectionBodies ==
    {Obj([meta |-> Arr(<<>>)]), Obj([meta |-> Arr(<<Obj([id |-> Undef])>>)])}

\* the bodies of the successful responses to a request
Bodies(path) ==
    CASE path.template = "/files/{fileKey}" -> FileBodies
      [] path.template = "/files/{fileKey}/nodes?ids={nodeIds}" -> NodesBodies
      [] path.template \in {"/me/files", "/search?query={query}"} -> FilesBodies
      [] OTHER -> CollectionBodies

Failure(status, statusText) ==
    [ok |-> FALSE, status |-> status, statusText |-> statusText, body |-> Undef]

\* what the upstream may answer to a request: a failure, or a success with
\* one of the bodies
Responses(path) ==
    {Failure(404, "Not Found"), Failure(403, "Forbidden"),
     Failure(400, "Bad Request"), Failure(500, "Internal Server Error")}
      \cup {[ok |-> TRUE, status |-> 200, statusText |-> "OK", body |-> b] :
              b \in Bodies(path)}

\* the request and the response it got, as one entry of requests
Exchange(path, response) == [path |-> path, response |-> response]

Quiet == UNCHANGED <<pc, uri, address, reassembled, readdress, raw, minimal,
                     renormal, handler>>

\* new FigmaResourceHandler(figmaToken)
Init ==
    /\ pc = "serving"
    /\ handler = [baseUrl |-> "https://api.figma.com/v1", token |-> "figmaToken"]
    /\ call = NoOutcome /\ requests = <<>> /\ outcome = NoOutcome
    /\ uri = <<>> /\ address = NoOutcome
    /\ reassembled = <<>> /\ readdress = NoOutcome
    /\ raw = Undef /\ minimal = NoOutcome /\ renormal = NoOutcome

\* read once its request got response
ReadAnswered(u, a, path, response) ==
    /\ requests' = <<Exchange(path, response)>>
    /\ outcome' = IF response.ok
                  THEN Return(ReadContents(u, a, figmaRequest(response).return))
                  ELSE figmaRequest(response)

\* read of the address a: request is what ReadRequest made of it
ReadAddress(u, a, request) ==
    IF "throw" \in DOMAIN request
    THEN requests' = <<>> /\ outcome' = request
    ELSE \E response \in Responses(request.return) :
           ReadAnswered(u, a, request.return, response)

\* read after validateUri(u) gave parsed
ReadParsed(u, parsed) ==
    IF "throw" \in DOMAIN parsed
    THEN requests' = <<>> /\ outcome' = parsed
    ELSE ReadAddress(u, parsed.return, ReadRequest(parsed.return))

\* handler.read(u)
Read ==
    \E u \in GatewayUris :
      /\ call' = [op |-> "read", arg |-> u]
      /\ ReadParsed(u, validateUri(u))
      /\ Quiet

\* handler.list()
List ==
    LET path == Path("/me/files", <<>>, <<>>)
    IN \E response \in Responses(path) :
         LET files == figmaRequest(response)
         IN /\ call' = [op |-> "list", arg |-> <<>>]
            /\ requests' = <<Exchange(path, response)>>
            /\ outcome' = IF "throw" \in DOMAIN files THEN files
                          ELSE Return(ListResources(Get(files.return, "files").e, 1))
            /\ Quiet

\* handler.search(query)
Search ==
    \E query \in Queries :
      LET path == Path("/search?query={query}", <<>>, EncodeURIComponent(query))
      IN \E response \in Responses(path) :
           LET searchResults == figmaRequest(response)
           IN /\ call' = [op |-> "search", arg |-> query]
              /\ requests' = <<Exchange(path, response)>>
              /\ outcome' =
                   IF "throw" \in DOMAIN searchResults THEN searchResults
                   ELSE LET files == Get(searchResults.return, "files").e
                        IN Return([i \in 1..Len(files) |-> FileResource(files[i])])
              /\ Quiet

\* watch of an address for which it issues the requests paths
WatchAddress(paths) ==
    IF paths = <<>>
    THEN requests' = <<>> /\ outcome' = Return(<<>>)
    ELSE \E response \in Responses(paths[1]) :
           /\ requests' = <<Exchange(paths[1], response)>>
           /\ outcome' = IF response.ok THEN Return(<<>>) ELSE figmaRequest(response)

\* watch after validateUri(u) gave parsed
WatchParsed(parsed) ==
    IF "throw" \in DOMAIN parsed
    THEN requests' = <<>> /\ outcome' = parsed
    ELSE WatchAddress(WatchRequests(parsed.return))

\* handler.watch(u)
Watch ==
    \E u \in GatewayUris :
      /\ call' = [op |-> "watch", arg |-> u]
      /\ WatchParsed(validateUri(u))
      /\ Quiet

\* the callback of server.tool('get-file')
GetFileTool ==
    \E fileKey \in AddressedKeys :
      LET path == Path("/files/{fileKey}", fileKey, <<>>)
      IN \E response \in Responses(path) :
           LET data == figmaRequest(response)
           IN /\ call' = [op |-> "get-file", arg |-> fileKey]
              /\ requests' = <<Exchange(path, response)>>
              /\ outcome' =
                   IF "throw" \in DOMAIN data THEN data
                   ELSE Return(<<[type |-> "text",
                                  text |-> JSONStringify(Obj(
                                    [name     |-> Get(data.return, "name"),
                                     key      |-> Str(fileKey),
                                     version  |-> Get(data.return, "version"),
                                     document |-> Get(data.return, "document")]))]>>)
              /\ Quiet

\* the callback of server.tool('get-node')
GetNodeTool ==
    \E fileKey \in AddressedKeys, nodeId \in NodeIds :
      LET path == Path("/files/{fileKey}/nodes?ids={nodeIds}", fileKey, nodeId)
      IN \E response \in Responses(path) :
           LET data == figmaRequest(response)
           IN /\ call' = [op |-> "get-node", arg |-> fileKey]
              /\ requests' = <<Exchange(path, response)>>
              /\ outcome' =
                   IF "throw" \in DOMAIN data THEN data
                   ELSE Return(<<[type |-> "text", text |-> JSONStringify(data.return)]>>)
              /\ Quiet

\* the callback of server.resource('file'), called for an identifier that
\* fits the template figma:///file/{fileKey}
FileResourceRead ==
    \E fileKey \in AddressedKeys :
      LET path == Path("/files/{fileKey}", fileKey, <<>>)
      IN \E response \in Responses(path) :
           LET data == figmaRequest(response)
           IN /\ call' = [op |-> "resource:file", arg |-> FileUri(fileKey)]
              /\ requests' = <<Exchange(path, response)>>
              /\ outcome' =
                   IF "throw" \in DOMAIN data THEN data
                   ELSE Return(<<Contents(FileUri(fileKey), JSONStringify(data.return))>>)
              /\ Quiet

Next ==
    \/ Read
    \/ List
    \/ Search
    \/ Watch
    \/ GetFileTool
    \/ GetNodeTool
    \/ FileResourceRead

Spec == Init /\ [][Next]_vars

-----------------------------------------------------------------------------
(* Claims about the handler and the server *)

Called(op) == "op" \in DOMAIN call /\ call.op = op

Returned(o) == "return" \in DOMAIN o

\* the number of entries of resources whose identifier is u
Entries(resources, u) ==
    Cardinality({i \in 1..Len(resources) : resources[i].uri = u})

\* the number of files of the listing whose key is key
Listed(files, key) ==
    Cardinality({i \in 1..Len(files) : Get(files[i], "key").s = key})

\* resources holds, for each file of the listing, one entry for the whole
\* document and one for each category of categories, and nothing else
ListsCategories(resources, files, categories) ==
    /\ Len(resources) = Len(files) * (1 + Cardinality(categories))
    /\ \A key \in FileKeys :
         /\ Entries(resources, FileUri(key)) = Listed(files, key)
         /\ \A type \in categories :
              Entries(resources, SubUri(key, type)) = Listed(files, key)

\* C1: watch on a whole-document address issues exactly one request, for
\* that document; on an address with a category it issues none; it leaves
\* the handler as it was.
C1_WatchFetchesDocument ==
    (Called("watch") /\ Returned(validateUri(call.arg))) =>
        LET a == validateUri(call.arg).return
        IN /\ IF a.resourceType = Undef
              THEN /\ Len(requests) = 1
                   /\ requests[1].path = Path("/files/{fileKey}", a.fileKey.s, <<>>)
              ELSE requests = <<>>
           /\ DOMAIN handler = {"baseUrl", "token"}

\* C2, as claimed: list returns, for each file of the upstream listing, one
\* whole-document entry and one entry for each of the seven categories.
C2_ListsSevenCategories ==
    (Called("list") /\ Returned(outcome)) =>
        ListsCategories(outcome.return, Get(requests[1].response.body, "files").e,
                        {Nodes, Images, Comments, Versions, Components, Styles, Variables})

\* C2, amended: list returns, for each file of the upstream listing, one
\* whole-document entry and one entry for each of images, comments, versions,
\* components, styles and variables, and nothing else: nodes has no entry.
C2_ListsSixCategories ==
    (Called("list") /\ Returned(outcome)) =>
        ListsCategories(outcome.return, Get(requests[1].response.body, "files").e,
                        {Images, Comments, Versions, Components, Styles, Variables})

\* list returned the entries of a listing of two files
C2_Witness ==
    /\ Called("list")
    /\ Returned(outcome)
    /\ Len(Get(requests[1].response.body, "files").e) = 2
    /\ Len(outcome.return) > 0

\* C3: whatever serves a whole-document address returns a body whose
\* document is transformFigmaNode of the fetched document.
C3_DocumentNormalized ==
    (/\ Called("read") \/ Called("resource:file")
     /\ Returned(validateUri(call.arg))
     /\ validateUri(call.arg).return.resourceType = Undef
     /\ Returned(outcome)) =>
        LET fetched == requests[1].response.body
        IN Get(outcome.return[1].text.json, "document")
             = JSONValue(transformFigmaNode(Get(fetched, "document")))

\* C4: a read that got a 404 throws ResourceNotFoundError, one that got a
\* 403 ResourceAccessDeniedError, one that got another failure an Error with
\* the status text; a read of a category outside the closed set throws the
\* unsupported-type Error; a read that failed returns nothing.
C4_ReadFailures ==
    Called("read") =>
        /\ (requests /= <<>> /\ ~requests[1].response.ok) =>
              outcome = Throw(
                CASE requests[1].response.status = 404 ->
                       Error("ResourceNotFoundError", <<"Figma resource not found">>)
                  [] requests[1].response.status = 403 ->
                       Error("ResourceAccessDeniedError",
                             <<"Access to Figma resource denied">>)
                  [] OTHER ->
                       Error("Error", <<"Figma API error: ",
                                        requests[1].response.statusText>>))
        /\ (/\ Returned(validateUri(call.arg))
            /\ validateUri(call.arg).return.resourceType /= Undef
            /\ validateUri(call.arg).return.resourceType.s
                 \notin {Nodes, Images, Comments, Versions, Components, Styles, Variables}) =>
              /\ requests = <<>>
              /\ outcome = Throw(Error("Error",
                   <<"Unsupported resource type: ">>
                     \o validateUri(call.arg).return.resourceType.s))
        /\ DOMAIN outcome \in {{"throw"}, {"return"}}

\* a read that was denied
C4_Witness ==
    /\ Called("read")
    /\ requests /= <<>>
    /\ requests[1].response.status = 403
    /\ outcome = Throw(Error("ResourceAccessDeniedError",
                             <<"Access to Figma resource denied">>))

-----------------------------------------------------------------------------
(* Claims about the resolver *)

AllIn(s, from, to, cls) == \A i \in from..to : s[i] \in cls

\* the address grammar: figma:///file/<containerKey>[/<category>[/<subId>]],
\* containerKey one or more word or hyphen characters, category one or more
\* word characters, subId any remaining text
InGrammar(u) ==
    LET P == Len(UriPrefix)
        n == Len(u)
    IN /\ n > P
       /\ SubSeq(u, 1, P) = UriPrefix
       /\ \E a \in (P + 1)..n :
            /\ AllIn(u, P + 1, a, KeyChars)
            /\ \/ a = n
               \/ /\ a + 2 <= n
                  /\ u[a + 1] = "/"
                  /\ \E b \in (a + 2)..n :
                       /\ AllIn(u, a + 2, b, WordChars)
                       /\ \/ b = n
                          \/ b + 2 <= n /\ u[b + 1] = "/"

\* C5: an identifier that does not match the full anchored grammar makes
\* validateUri throw InvalidUriError; nothing, not even a partial address,
\* is returned.
C5_MalformedRejected ==
    (pc /= "input" /\ ~InGrammar(uri)) => address = Throw(Error("InvalidUriError", uri))

\* a well-formed head and key followed by text the grammar does not allow
C5_Witness ==
    /\ pc = "resolved"
    /\ Len(uri) > Len(UriPrefix) + 1
    /\ SubSeq(uri, 1, Len(UriPrefix) + 1) = UriPrefix \o <<"a">>
    /\ ~InGrammar(uri)
    /\ address = Throw(Error("InvalidUriError", uri))

-----------------------------------------------------------------------------
(* Claims about the normalizer *)

\* C7: transformFigmaNode applied to its own output returns that output.
C7_Idempotent ==
    pc = "renormalized" => renormal = minimal

\* a second pass over a truncated text and a line height that came from the
\* object form
C7_Witness ==
    /\ pc = "renormalized"
    /\ Get(raw, "characters").t = "string"
    /\ Len(Get(raw, "characters").s) > DefaultMaxLength
    /\ Get(minimal, "characters").t = "string"
    /\ Get(Get(raw, "style"), "lineHeight").t = "object"
    /\ Get(Get(minimal, "style"), "lineHeight").t = "number"

HasStringType(fill) ==
    fill.t = "object" /\ "type" \in DOMAIN fill.f /\ fill.f.type.t = "string"

HasNumericColor(fill) ==
    /\ "color" \in DOMAIN fill.f
    /\ fill.f.color.t = "object"
    /\ \A ch \in {"r", "g", "b", "a"} :
          ch \in DOMAIN fill.f.color.f /\ fill.f.color.f[ch].t = "number"

RawFillsOf(node) == Get(Get(node, "style"), "fills")

\* C8: of the fills of a style, those without a string type are dropped;
\* those with one are kept in order, each with a color exactly when the four
\* channels of its raw color are numbers; fills is attached only when a fill
\* was kept.
C8_FillFiltering ==
    (pc /= "input" /\ Get(raw, "style").t = "object" /\ RawFillsOf(raw).t = "array") =>
        LET kept == SelectSeq(RawFillsOf(raw).e, HasStringType)
            out  == RawFillsOf(minimal)
        IN IF Len(kept) = 0 THEN out = Undef
           ELSE /\ out.t = "array"
                /\ Len(out.e) = Len(kept)
                /\ \A i \in 1..Len(kept) :
                     /\ out.e[i].t = "object"
                     /\ out.e[i].f.type = kept[i].f.type
                     /\ IF HasNumericColor(kept[i])
                        THEN /\ DOMAIN out.e[i].f = {"type", "color"}
                             /\ \A ch \in {"r", "g", "b", "a"} :
                                  Get(out.e[i].f.color, ch) = kept[i].f.color.f[ch]
                        ELSE DOMAIN out.e[i].f = {"type"}

\* a fill without a type next to a fill with a type and a partial color
C8_Witness ==
    /\ pc = "normalized"
    /\ Get(raw, "style").t = "object"
    /\ RawFillsOf(raw).t = "array"
    /\ \E i \in 1..Len(RawFillsOf(raw).e) : ~HasStringType(RawFillsOf(raw).e[i])
    /\ \E i \in 1..Len(RawFillsOf(raw).e) :
          /\ HasStringType(RawFillsOf(raw).e[i])
          /\ Get(Get(RawFillsOf(raw).e[i], "color"), "r").t = "number"
          /\ ~HasNumericColor(RawFillsOf(raw).e[i])
    /\ RawFillsOf(minimal).t = "array"

RECURSIVE TextSummarized(_, _)

\* the text of the normalized node m, and of the nodes below it, is what the
\* claim says of the raw node r
TextSummarized(r, m) ==
    LET characters == Get(r, "characters")
    IN /\ IF Get(r, "type") = TextType /\ characters.t = "string"
          THEN /\ Get(m, "characters").t = "string"
               /\ IF Len(characters.s) <= DefaultMaxLength
                  THEN Get(m, "characters").s = characters.s
                  ELSE /\ Len(Get(m, "characters").s) = DefaultMaxLength + 3
                       /\ Get(m, "characters").s
                            = SubSeq(characters.s, 1, DefaultMaxLength) \o Ellipsis
          ELSE "characters" \notin DOMAIN m.f
       /\ Get(r, "children").t = "array" =>
            /\ Get(m, "children").t = "array"
            /\ Len(Get(m, "children").e) = Len(Get(r, "children").e)
            /\ \A i \in 1..Len(Get(r, "children").e) :
                  TextSummarized(Get(r, "children").e[i], Get(m, "children").e[i])

\* C9: the text of a TEXT node with string characters is the original when
\* at most 100 units long, else its first 100 units and the three-unit
\* marker; any other node has no text.
C9_TextSummarization ==
    pc /= "input" => TextSummarized(raw, minimal)

\* a text one unit over the threshold was normalized
C9_Witness ==
    /\ pc = "normalized"
    /\ Get(raw, "type") = TextType
    /\ Get(raw, "characters").t = "string"
    /\ Len(Get(raw, "characters").s) = DefaultMaxLength + 1
    /\ Len(Get(minimal, "characters").s) = DefaultMaxLength + 3

\* C10: the normalized line height is the bare number, or the numeric value
\* field of the object form whatever the number; otherwise there is none.
C10_LineHeight ==
    (pc /= "input" /\ Get(raw, "style").t = "object") =>
        LET lineHeight == Get(Get(raw, "style"), "lineHeight")
            out        == Get(Get(minimal, "style"), "lineHeight")
        IN IF lineHeight.t = "number" THEN out = lineHeight
           ELSE IF lineHeight.t = "object" /\ Get(lineHeight, "value").t = "number"
                THEN out = Get(lineHeight, "value")
                ELSE out = Undef

=============================================================================
